---- MODULE Spec2Model ----
(***************************************************************************)
(* Incremental (frame-driven) autofocus of B016712MP/AutoFocus.py:         *)
(* startFocus_hailo / stepFocus_hailo, the score filter and the focus      *)
(* actuator commands they issue.                                           *)
(*                                                                         *)
(* Sharpness scores are floats in the source; they are modelled as         *)
(* non-negative integers (the hill-climb threshold is 1).  Python's None   *)
(* is the empty sequence <<>> and a present value v is <<v>>.              *)
(***************************************************************************)
EXTENDS Integers, Sequences, FiniteSets, TLC

VARIABLES
    h_stage,            \* "idle" / "coarse" / "fine" / "done"
    h_step,
    h_threshold,
    h_max_dec_count,
    h_max_index,
    h_max_value,
    h_last_value,
    h_dec_count,
    h_focal_distance,
    value_buffer,       \* the filter's score history
    MAX_FOCUS_VALUE,
    coarse_step_size,
    focuser_focus,      \* last value passed to focuser.set(OPT_FOCUS, .)
    set_calls,          \* values passed to focuser.set during the last call
    ret,                \* what the last stepFocus_hailo call returned
    op,                 \* the last call: "init" / "start" / "step"
    raw_in,             \* laplacian2(frame) of the last scoring call, or <<>>
    val,                \* filtered score of the last scoring call, or <<>>
    coarse_result,      \* h_max_index when the coarse stage completed, or <<>>
    scene,              \* the sharpness function of the scene in front of the lens
    is_focusing,        \* UserApp.is_focusing
    target_id,          \* UserApp.target_id
    app_set_calls,      \* values passed to focuser.set(OPT_FOCUS, .) by the
                        \* frame callback or the input thread in their last run
    app_op,             \* the last run outside the controller: "new" / "init" /
                        \* "no_frame" / "invalid_frame" / "callback" /
                        \* "input"
    b_stage,            \* where the blocking startFocus or startFocus2 is:
                        \* "idle" / "coarse" / "fine" / "second" (inside
                        \* focusing, waiting for a frame) / "done"
    b_focal_distance,   \* focusing(): focal_distance
    b_max_index,        \* focusing(): max_index
    b_max_value,        \* focusing(): max_value
    b_last_value,       \* focusing(): last_value
    b_dec_count,        \* focusing(): dec_count
    b_buffer,           \* value_buffer of the blocking run
    b_focus,            \* last value the blocking run passed to focuser.set
    b_set_calls,        \* values the blocking run passed to focuser.set since
                        \* the previous frame
    b_ret,              \* max_index returned by startFocus, or <<>>
    cb_pc,              \* the callback's place in its detection loop: "none" /
                        \* "loop" / "check_mode" / "check_id" / "track_mode" /
                        \* "move"
    cb_det,             \* the detection being handled
    current_pan,        \* UserApp.current_pan
    last_move_time,     \* UserApp.last_move_time, in clock ticks
    now,                \* time.monotonic(), in clock ticks of 0.1 s
    motor_x,            \* last value passed to focuser.set(OPT_MOTOR_X, .)
    pan_calls           \* values passed to focuser.set(OPT_MOTOR_X, .) in the
                        \* last step

vars == <<h_stage, h_step, h_threshold, h_max_dec_count, h_max_index,
          h_max_value, h_last_value, h_dec_count, h_focal_distance,
          value_buffer, MAX_FOCUS_VALUE, coarse_step_size, focuser_focus,
          set_calls, ret, op, raw_in, val, coarse_result, scene,
          is_focusing, target_id, app_set_calls, app_op,
          b_stage, b_focal_distance, b_max_index, b_max_value, b_last_value,
          b_dec_count, b_buffer, b_focus, b_set_calls, b_ret,
          cb_pc, cb_det, current_pan, last_move_time, now, motor_x,
          pan_calls>>

\* the state of UserApp outside the controller
appvars == <<is_focusing, target_id, app_set_calls, app_op>>

\* the state of a run of the blocking startFocus
blkvars == <<b_stage, b_focal_distance, b_max_index, b_max_value,
             b_last_value, b_dec_count, b_buffer, b_focus, b_set_calls,
             b_ret>>

\* the pan tracking state of UserApp and of its callback
trkvars == <<cb_pc, cb_det, current_pan, last_move_time, now, motor_x,
             pan_calls>>

(***************************************************************************)
(* Bounds of the model                                                     *)
(***************************************************************************)
MaxScoreLevel == 4
MaxEndPoint == 120
MaxStartingPoint == 8
MaxSlope == 3
MaxLiveLevel == 4
MaxAppLevel == 1
MaxTargetId == 0
MaxFaultLevel == 1
MaxInvertedEnd == 20
MaxRefineLevel == 2
MaxTrackId == 1
MaxPixelOffset == 640
MaxClock == 10
MaxBlockingLevel == 2

\* raw sharpness scores a frame can have: even levels, and 1 (a change
\* within the drop threshold)
Scores == {2 * k : k \in 0..MaxScoreLevel} \cup {1}
\* entries of focuser.end_point / focuser.starting_point the zoom can select
EndPoints == {MaxEndPoint}
StartingPoints == {0, MaxStartingPoint}

(***************************************************************************)
(* Program constants                                                       *)
(***************************************************************************)
DefaultMaxFocusValue == 1100
DefaultCoarseStepSize == 100
max_len == 3
CoarseThreshold == 1
CoarseMaxDecCount == 2
FineStep == 5
FineThreshold == 1
FineMaxDecCount == 3
\* mergui_hailo_detection.py line 108
InitialFocus == 200
\* mergui_hailo_detection.py line 84
center_pan == 90
\* mergui_hailo_detection.py line 123: move_cooldown = 0.5 s, in clock ticks
move_cooldown == 5

None == <<>>
Some(v) == <<v>>

Max3(a, b, c) == IF a >= b /\ a >= c THEN a ELSE IF b >= c THEN b ELSE c
Min3(a, b, c) == IF a <= b /\ a <= c THEN a ELSE IF b <= c THEN b ELSE c
Median3(a, b, c) == a + b + c - Max3(a, b, c) - Min3(a, b, c)

(***************************************************************************)
(* AutoFocus.filter                                                        *)
(***************************************************************************)
\* math.ceil(n / 2) with Python 3 true division
CeilHalf(n) == (n + 1) \div 2

\* the 0-based index filter() reads from the sorted list
FilterIndex == CeilHalf(max_len)

\* a rolling mean whose divisor is the buffer length after the pop
FilterValueMean(buf, value) ==
    LET appended == Append(buf, value)
    IN  IF Len(appended) = max_len
        THEN (appended[1] + appended[2] + appended[3]) \div (max_len - 1)
        ELSE value

\* value returned by filter(value) when the buffer before the call is buf
FilterValue(buf, value) ==
    LET appended == Append(buf, value)
        sort_list == SortSeq(appended, LAMBDA a, b : a < b)
    IN  IF Len(appended) = max_len
        THEN sort_list[FilterIndex + 1]
        ELSE value

\* value_buffer after filter(value)
FilterBuffer(buf, value) ==
    LET appended == Append(buf, value)
    IN  IF Len(appended) = max_len THEN Tail(appended) ELSE appended

(***************************************************************************)
(* Pieces of one stepFocus_hailo iteration                                 *)
(***************************************************************************)
\* the best candidate is replaced by an equal score too
IsNewBestOrEqual(v, max_value) == v >= max_value

\* lines 329-331: does this score replace the best candidate
IsNewBest(v, max_value) == v > max_value

\* lines 333-338: the drop counter after a score v
NextDecCount(dec_count, last_value, v, threshold) ==
    IF last_value >= 0
    THEN LET diff == last_value - v
         IN  IF diff > threshold THEN dec_count + 1
             ELSE IF diff # 0 THEN 0
             ELSE dec_count
    ELSE dec_count

\* the stage ends as soon as the drop counter reaches the limit
StageEndsAtLimit(dec_count, max_dec_count, focal_distance, max_focus) ==
    dec_count >= max_dec_count \/ focal_distance > max_focus

\* lines 342-345: the stage ends
StageEnds(dec_count, max_dec_count, focal_distance, max_focus) ==
    dec_count > max_dec_count \/ focal_distance > max_focus

\* the fine stage starts one coarse step above the coarse best
CoarseBestAbove(max_index, coarse_step) == max_index + coarse_step

\* the fine stage starts at the coarse best itself
CoarseBestNoMargin(max_index, coarse_step) == max_index

\* lines 347-349: where the fine stage starts
CoarseBest(max_index, coarse_step) ==
    IF max_index - coarse_step < 0 THEN 0 ELSE max_index - coarse_step

\* two positions are consumed by one call
AdvanceTwice(focal_distance, step) == focal_distance + 2 * step

\* the position is not advanced
AdvanceStuck(focal_distance, step) == focal_distance

\* line 374
Advance(focal_distance, step) == focal_distance + step

\* the advanced position is commanded without the range test
AdvanceCommandedAlways(focal_distance, max_focus) == TRUE

\* line 375: the advanced position is commanded
AdvanceCommanded(focal_distance, max_focus) == focal_distance <= max_focus

(***************************************************************************)
(* The scene: sharpness of a frame taken with the lens at position p.      *)
(* A free scene gives any score; a peaked scene is the synthetic unimodal  *)
(* function peak.h - slope * distance from peak.at, floored at 0.          *)
(***************************************************************************)
FreeScene == [kind |-> "free", at |-> 0, h |-> 0, left |-> 0, right |-> 0]

Sharpness(sc, p) ==
    LET s == IF p <= sc.at THEN sc.h - sc.left * (sc.at - p)
                           ELSE sc.h - sc.right * (p - sc.at)
    IN  IF s < 0 THEN 0 ELSE s

FrameScores == IF scene.kind = "free" THEN Scores
               ELSE {Sharpness(scene, focuser_focus)}

(***************************************************************************)
(* State after AutoFocus.__init__                                          *)
(***************************************************************************)
InitController ==
    /\ h_stage = "idle"
    /\ h_step = 0
    /\ h_threshold = 0
    /\ h_max_dec_count = 0
    /\ h_max_index = 0
    /\ h_max_value = 0
    /\ h_last_value = -1
    /\ h_dec_count = 0
    /\ h_focal_distance = 0
    /\ value_buffer = <<>>
    /\ MAX_FOCUS_VALUE = DefaultMaxFocusValue
    /\ focuser_focus = 0
    /\ set_calls = <<>>
    /\ ret = [finished |-> FALSE, best_pos |-> None]
    /\ op = "init"
    /\ raw_in = None
    /\ val = None
    /\ coarse_result = None

\* no detection
NoDetection == [person |-> FALSE, track_id |-> -1, pixel_x |-> 0,
                off_center |-> FALSE]

\* no UserApp has been constructed
NoUserApp ==
    /\ is_focusing = FALSE
    /\ target_id = -1
    /\ app_set_calls = <<>>
    /\ app_op = "new"
    /\ cb_pc = "none"
    /\ cb_det = NoDetection
    /\ current_pan = 0
    /\ motor_x = 0
    /\ last_move_time = 0
    /\ now = 0
    /\ pan_calls = <<>>

\* the blocking startFocus has not been called
NoBlockingRun ==
    /\ b_stage = "idle"
    /\ b_focal_distance = 0
    /\ b_max_index = 0
    /\ b_max_value = 0
    /\ b_last_value = -1
    /\ b_dec_count = 0
    /\ b_buffer = <<>>
    /\ b_focus = 0
    /\ b_set_calls = <<>>
    /\ b_ret = None

Init ==
    /\ InitController
    /\ coarse_step_size = DefaultCoarseStepSize
    /\ scene = FreeScene
    /\ NoUserApp
    /\ NoBlockingRun

(***************************************************************************)
(* _hailo_init_stage                                                       *)
(***************************************************************************)
\* the stage start is commanded twice
hailo_init_stage_sets_twice(step, threshold, max_dec_count, start_pos, stage) ==
    /\ value_buffer' = <<>>
    /\ h_stage' = stage
    /\ h_step' = step
    /\ h_threshold' = threshold
    /\ h_max_dec_count' = max_dec_count
    /\ h_max_index' = start_pos
    /\ h_max_value' = 0
    /\ h_last_value' = -1
    /\ h_dec_count' = 0
    /\ h_focal_distance' = start_pos
    /\ focuser_focus' = start_pos
    /\ set_calls' = <<start_pos, start_pos>>

\* the score history survives the stage start
hailo_init_stage_keeps_history(step, threshold, max_dec_count, start_pos, stage) ==
    /\ UNCHANGED value_buffer
    /\ h_stage' = stage
    /\ h_step' = step
    /\ h_threshold' = threshold
    /\ h_max_dec_count' = max_dec_count
    /\ h_max_index' = start_pos
    /\ h_max_value' = 0
    /\ h_last_value' = -1
    /\ h_dec_count' = 0
    /\ h_focal_distance' = start_pos
    /\ focuser_focus' = start_pos
    /\ set_calls' = <<start_pos>>

hailo_init_stage(step, threshold, max_dec_count, start_pos, stage) ==
    /\ value_buffer' = <<>>
    /\ h_stage' = stage
    /\ h_step' = step
    /\ h_threshold' = threshold
    /\ h_max_dec_count' = max_dec_count
    /\ h_max_index' = start_pos
    /\ h_max_value' = 0
    /\ h_last_value' = -1
    /\ h_dec_count' = 0
    /\ h_focal_distance' = start_pos
    /\ focuser_focus' = start_pos
    /\ set_calls' = <<start_pos>>

(***************************************************************************)
(* startFocus_hailo: end_point and starting_point are the focuser's        *)
(* table entries for the current zoom                                      *)
(***************************************************************************)
HailoStart(end_point, starting_point) ==
    /\ MAX_FOCUS_VALUE' = end_point
    /\ hailo_init_stage(coarse_step_size, CoarseThreshold, CoarseMaxDecCount,
                        starting_point, "coarse")
    /\ op' = "start"
    /\ raw_in' = None
    /\ val' = None
    /\ coarse_result' = None
    /\ UNCHANGED <<ret, coarse_step_size, scene>>

startFocus_hailo ==
    /\ \E e \in EndPoints, s \in StartingPoints : HailoStart(e, s)
    /\ UNCHANGED <<appvars, blkvars, trkvars>>

(***************************************************************************)
(* stepFocus_hailo(frame), raw = laplacian2(frame)                         *)
(***************************************************************************)
\* the stage test with the wrong stage name
IsFineStage(stage) == stage = "fine"

\* line 346: the stage that ends is the coarse one
IsCoarseStage(stage) == stage = "coarse"

\* the lens is left where the scan stopped
LandingStays(max_index, focal_distance) == focal_distance

\* line 370: the position commanded by the call that ends the fine stage
LandingPosition(max_index, focal_distance) == max_index

\* finished is reported without a position
FinishedResultNoPosition(max_index) == [finished |-> TRUE, best_pos |-> None]

\* line 372: return True, self.h_max_index
FinishedResult(max_index) == [finished |-> TRUE, best_pos |-> Some(max_index)]

StepScore(raw) ==
    LET v == FilterValue(value_buffer, raw)
        new_best == IsNewBest(v, h_max_value)
        max_value == IF new_best THEN v ELSE h_max_value
        max_index == IF new_best THEN h_focal_distance ELSE h_max_index
        dec_count == NextDecCount(h_dec_count, h_last_value, v, h_threshold)
    IN  /\ op' = "step"
        /\ raw_in' = Some(raw)
        /\ val' = Some(v)
        /\ UNCHANGED <<MAX_FOCUS_VALUE, coarse_step_size, scene>>
        /\ IF StageEnds(dec_count, h_max_dec_count, h_focal_distance,
                        MAX_FOCUS_VALUE)
           THEN IF IsCoarseStage(h_stage)
                THEN /\ hailo_init_stage(FineStep, FineThreshold,
                                         FineMaxDecCount,
                                         CoarseBest(max_index, coarse_step_size),
                                         "fine")
                     /\ coarse_result' = Some(max_index)
                     /\ ret' = [finished |-> FALSE, best_pos |-> None]
                ELSE /\ focuser_focus' =
                            LandingPosition(max_index, h_focal_distance)
                     /\ set_calls' =
                            <<LandingPosition(max_index, h_focal_distance)>>
                     /\ h_stage' = "done"
                     /\ h_max_value' = max_value
                     /\ h_max_index' = max_index
                     /\ h_dec_count' = dec_count
                     /\ h_last_value' = v
                     /\ value_buffer' = FilterBuffer(value_buffer, raw)
                     /\ ret' = FinishedResult(max_index)
                     /\ UNCHANGED <<h_step, h_threshold, h_max_dec_count,
                                    h_focal_distance, coarse_result>>
           ELSE LET fd == Advance(h_focal_distance, h_step)
                    cmd == AdvanceCommanded(fd, MAX_FOCUS_VALUE)
                IN  /\ h_focal_distance' = fd
                    /\ focuser_focus' = IF cmd THEN fd ELSE focuser_focus
                    /\ set_calls' = IF cmd THEN <<fd>> ELSE <<>>
                    /\ h_max_value' = max_value
                    /\ h_max_index' = max_index
                    /\ h_dec_count' = dec_count
                    /\ h_last_value' = v
                    /\ value_buffer' = FilterBuffer(value_buffer, raw)
                    /\ ret' = [finished |-> FALSE, best_pos |-> None]
                    /\ UNCHANGED <<h_stage, h_step, h_threshold,
                                   h_max_dec_count, coarse_result>>

\* the early return taken for done only
StepSkippedDoneOnly(stage) == stage = "done"

\* the early return taken for idle only
StepSkippedIdleOnly(stage) == stage = "idle"

\* lines 314-317: the call returns before scoring
StepSkipped(stage) == stage \in {"idle", "done"}

StepIdleOrDone ==
    /\ op' = "step"
    /\ raw_in' = None
    /\ val' = None
    /\ set_calls' = <<>>
    /\ ret' = [finished |-> h_stage = "done",
               best_pos |-> IF h_stage = "done" THEN Some(h_max_index) ELSE None]
    /\ UNCHANGED <<h_stage, h_step, h_threshold, h_max_dec_count, h_max_index,
                   h_max_value, h_last_value, h_dec_count, h_focal_distance,
                   value_buffer, MAX_FOCUS_VALUE, coarse_step_size,
                   focuser_focus, coarse_result, scene>>

StepWith(scores) ==
    \E raw \in scores :
        IF StepSkipped(h_stage)
        THEN StepIdleOrDone
        ELSE StepScore(raw)

stepFocus_hailo == StepWith(FrameScores) /\ UNCHANGED <<appvars, blkvars, trkvars>>

Next == startFocus_hailo \/ stepFocus_hailo

Spec == Init /\ [][Next]_vars

(***************************************************************************)
(* The frame callback's use of the controller (mergui_hailo_detection.py): *)
(* UserApp.__init__ calls startFocus_hailo once, then every delivered      *)
(* frame calls stepFocus_hailo.  The pipeline keeps delivering frames.     *)
(***************************************************************************)
LiveScores == {2 * k : k \in 0..MaxLiveLevel}

UserAppInit == h_stage = "idle" /\ startFocus_hailo

FrameDelivered == StepWith(LiveScores) /\ UNCHANGED <<appvars, blkvars, trkvars>>

NextLive == UserAppInit \/ FrameDelivered

SpecLive == Init /\ [][NextLive]_vars /\ WF_vars(NextLive)

(***************************************************************************)
(* The two-stage convergence scenario: range [0, 1200], coarse step 80, a  *)
(* unimodal scene peaking at 643; each frame shows the lens position last  *)
(* commanded.                                                              *)
(***************************************************************************)
ConvScenes ==
    {[kind |-> "peak", at |-> 643, h |-> hh, left |-> a, right |-> b] :
        hh \in {500, 3000}, a \in 1..MaxSlope, b \in 1..MaxSlope}

InitConv ==
    /\ InitController
    /\ coarse_step_size = 80
    /\ scene \in ConvScenes
    /\ NoUserApp
    /\ NoBlockingRun

StartConv == h_stage = "idle" /\ HailoStart(1200, 0) /\ UNCHANGED <<appvars, blkvars, trkvars>>

NextConv == StartConv \/ stepFocus_hailo

SpecConv == InitConv /\ [][NextConv]_vars

(***************************************************************************)
(* The application (mergui_hailo_detection.py): UserApp.__init__, the      *)
(* focus part of app_callback (lines 130-167) and user_input_loop.  The    *)
(* detection and pan part of the callback (lines 169-252) touches neither  *)
(* the controller nor the focus motor.                                     *)
(***************************************************************************)
\* the controller's own fields and the lens position
ControllerState ==
    <<h_stage, h_step, h_threshold, h_max_dec_count, h_max_index, h_max_value,
      h_last_value, h_dec_count, h_focal_distance, value_buffer,
      MAX_FOCUS_VALUE, focuser_focus>>

\* an action that makes no call on the controller
NoControllerCall ==
    /\ op' = "none"
    /\ raw_in' = None
    /\ val' = None
    /\ set_calls' = <<>>
    /\ UNCHANGED <<ControllerState, ret, coarse_result, coarse_step_size,
                   scene>>

AppScores == {2 * k : k \in 0..MaxAppLevel}

TargetIds == -1..MaxTargetId

\* lines 96-123 of UserApp.__init__
UserApp__init__ ==
    /\ app_op = "new"
    /\ is_focusing' = TRUE
    /\ app_set_calls' = <<Some(InitialFocus)>>
    /\ \E e \in EndPoints, s \in StartingPoints : HailoStart(e, s)
    /\ app_op' = "init"
    /\ cb_pc' = "loop"
    /\ current_pan' = center_pan
    /\ motor_x' = center_pan
    /\ pan_calls' = <<center_pan>>
    /\ last_move_time' = 0
    /\ UNCHANGED <<target_id, cb_det, now, blkvars>>

\* the callback commands the focus motor on every frame
CallbackCommandsAlways(finished) == TRUE

\* line 164: if finished
CallbackCommands(finished) == finished

\* is_focusing is left as it was
FocusingAfterKept(finished, focusing) == focusing

\* lines 164-166: is_focusing after the step returned
FocusingAfter(finished, focusing) == IF finished THEN FALSE ELSE focusing

\* lines 131-133 and 158-159: buffer or frame is None
CallbackNoFrame ==
    /\ app_op # "new"
    /\ NoControllerCall
    /\ app_set_calls' = <<>>
    /\ app_op' = "no_frame"
    /\ UNCHANGED <<is_focusing, target_id, blkvars, trkvars>>

\* line 162: is_focusing is false, the step is not called
CallbackNotFocusing ==
    /\ app_op # "new"
    /\ ~is_focusing
    /\ NoControllerCall
    /\ app_set_calls' = <<>>
    /\ app_op' = "callback"
    /\ UNCHANGED <<is_focusing, target_id, blkvars, trkvars>>

\* lines 162-163 with a frame that is not an RGB image: cv2.cvtColor in
\* laplacian2 (line 100, called at line 320) raises before any assignment
CallbackInvalidFrame ==
    /\ app_op # "new"
    /\ is_focusing
    /\ ~StepSkipped(h_stage)
    /\ op' = "raised"
    /\ raw_in' = None
    /\ val' = None
    /\ set_calls' = <<>>
    /\ UNCHANGED <<ControllerState, ret, coarse_result, coarse_step_size,
                   scene>>
    /\ app_set_calls' = <<>>
    /\ app_op' = "invalid_frame"
    /\ UNCHANGED <<is_focusing, target_id, blkvars, trkvars>>

\* lines 162-167 with an RGB frame
CallbackFocusStep ==
    /\ app_op # "new"
    /\ is_focusing
    /\ StepWith(AppScores)
    /\ is_focusing' = FocusingAfter(ret'.finished, is_focusing)
    /\ app_set_calls' = IF CallbackCommands(ret'.finished)
                        THEN <<ret'.best_pos>>
                        ELSE <<>>
    /\ app_op' = "callback"
    /\ UNCHANGED <<target_id, blkvars, trkvars>>

app_callback ==
    \/ CallbackNoFrame
    \/ CallbackNotFocusing
    \/ CallbackInvalidFrame
    \/ CallbackFocusStep

\* lines 44-57: a number typed on the terminal
user_input_loop ==
    /\ app_op # "new"
    /\ \E new_id \in TargetIds : target_id' = new_id
    /\ NoControllerCall
    /\ app_set_calls' = <<>>
    /\ app_op' = "input"
    /\ UNCHANGED <<is_focusing, blkvars, trkvars>>

NextApp == UserApp__init__ \/ app_callback \/ user_input_loop

SpecApp == Init /\ [][NextApp]_vars

(***************************************************************************)
(* A failing focuser.set: the call raises, the assignments made before it  *)
(* stay, the lens does not move and the statements after it are not run.   *)
(* As in UserApp.__init__, the session is started once.                    *)
(***************************************************************************)
FaultScores == {2 * k : k \in 0..MaxFaultLevel}

\* _hailo_init_stage with the set at line 286 failing
hailo_init_stage_set_fails(step, threshold, max_dec_count, start_pos, stage) ==
    /\ value_buffer' = <<>>
    /\ h_stage' = stage
    /\ h_step' = step
    /\ h_threshold' = threshold
    /\ h_max_dec_count' = max_dec_count
    /\ h_max_index' = start_pos
    /\ h_max_value' = 0
    /\ h_last_value' = -1
    /\ h_dec_count' = 0
    /\ h_focal_distance' = start_pos
    /\ set_calls' = <<start_pos>>
    /\ UNCHANGED focuser_focus

startFocus_hailo_set_fails ==
    /\ h_stage = "idle"
    /\ \E e \in EndPoints, s \in StartingPoints :
          /\ MAX_FOCUS_VALUE' = e
          /\ hailo_init_stage_set_fails(coarse_step_size, CoarseThreshold,
                                        CoarseMaxDecCount, s, "coarse")
    /\ op' = "set_failed"
    /\ raw_in' = None
    /\ val' = None
    /\ coarse_result' = None
    /\ UNCHANGED <<ret, coarse_step_size, scene>>
    /\ UNCHANGED <<appvars, blkvars, trkvars>>

\* stepFocus_hailo with the set it reaches (line 286, 370 or 376) failing
stepFocus_hailo_set_fails ==
    /\ ~StepSkipped(h_stage)
    /\ \E raw \in FaultScores :
        LET v == FilterValue(value_buffer, raw)
            new_best == IsNewBest(v, h_max_value)
            max_value == IF new_best THEN v ELSE h_max_value
            max_index == IF new_best THEN h_focal_distance ELSE h_max_index
            dec_count == NextDecCount(h_dec_count, h_last_value, v,
                                      h_threshold)
        IN  /\ op' = "set_failed"
            /\ raw_in' = Some(raw)
            /\ val' = Some(v)
            /\ UNCHANGED <<MAX_FOCUS_VALUE, coarse_step_size, scene, ret,
                           focuser_focus>>
            /\ IF StageEnds(dec_count, h_max_dec_count, h_focal_distance,
                            MAX_FOCUS_VALUE)
               THEN IF IsCoarseStage(h_stage)
                    THEN /\ hailo_init_stage_set_fails(
                                FineStep, FineThreshold, FineMaxDecCount,
                                CoarseBest(max_index, coarse_step_size),
                                "fine")
                         /\ coarse_result' = Some(max_index)
                    ELSE /\ set_calls' = <<max_index>>
                         /\ h_max_value' = max_value
                         /\ h_max_index' = max_index
                         /\ h_dec_count' = dec_count
                         /\ h_last_value' = v
                         /\ value_buffer' = FilterBuffer(value_buffer, raw)
                         /\ UNCHANGED <<h_stage, h_step, h_threshold,
                                        h_max_dec_count, h_focal_distance,
                                        coarse_result>>
               ELSE LET fd == Advance(h_focal_distance, h_step)
                    IN  /\ AdvanceCommanded(fd, MAX_FOCUS_VALUE)
                        /\ h_focal_distance' = fd
                        /\ set_calls' = <<fd>>
                        /\ h_max_value' = max_value
                        /\ h_max_index' = max_index
                        /\ h_dec_count' = dec_count
                        /\ h_last_value' = v
                        /\ value_buffer' = FilterBuffer(value_buffer, raw)
                        /\ UNCHANGED <<h_stage, h_step, h_threshold,
                                       h_max_dec_count, coarse_result>>
    /\ UNCHANGED <<appvars, blkvars, trkvars>>

stepFocus_hailo_set_ok == StepWith(FaultScores) /\ UNCHANGED <<appvars, blkvars, trkvars>>

NextFault ==
    \/ UserAppInit
    \/ startFocus_hailo_set_fails
    \/ stepFocus_hailo_set_ok
    \/ stepFocus_hailo_set_fails

SpecFault == Init /\ [][NextFault]_vars

(***************************************************************************)
(* startFocus_hailo with a focuser table whose starting point lies above   *)
(* its end point                                                           *)
(***************************************************************************)
InvertedWindows ==
    {[end_point |-> MaxInvertedEnd, starting_point |-> MaxInvertedEnd + d] :
        d \in {10, 105}}

startFocus_hailo_inverted ==
    /\ \E w \in InvertedWindows : HailoStart(w.end_point, w.starting_point)
    /\ UNCHANGED <<appvars, blkvars, trkvars>>

NextInverted == startFocus_hailo_inverted \/ stepFocus_hailo

SpecInverted == Init /\ [][NextInverted]_vars

(***************************************************************************)
(* The blocking startFocus, cut at the frames it takes from the camera:    *)
(* BlockingStart runs from the call to the first getFrame, BlockingFrame   *)
(* from one getFrame to the next or to the return.  It runs on a focuser   *)
(* of its own (b_focus), next to an incremental session given the same     *)
(* focuser table entries and the same frame scores.                        *)
(***************************************************************************)
RefineScores == {2 * k : k \in 0..MaxRefineLevel}

\* focuser.get(OPT_FOCUS): the position last set
FocuserGet(focus) == focus

\* lines 199, 206 and 234: the arguments of the focusing calls; "coarse" and
\* "fine" are the two calls of startFocus, "second" the call of startFocus2
FocusingArgs(stage) ==
    IF stage = "coarse"
    THEN [step |-> coarse_step_size, threshold |-> 1, max_dec_count |-> 2]
    ELSE IF stage = "fine"
    THEN [step |-> 5, threshold |-> 1, max_dec_count |-> 3]
    ELSE [step |-> 20, threshold |-> 1, max_dec_count |-> 4]

\* lines 207 and 235: the position commanded before the return
BlockingLanding(stage, max_index) ==
    IF stage = "fine" THEN max_index ELSE max_index - 30

\* lines 118-127: focusing() up to its first getFrame, the lens being at pos
FocusingEnter(stage, pos, earlier_sets) ==
    /\ b_stage' = stage
    /\ b_buffer' = <<>>
    /\ b_max_index' = FocuserGet(pos)
    /\ b_max_value' = 0
    /\ b_last_value' = -1
    /\ b_dec_count' = 0
    /\ b_focal_distance' = FocuserGet(pos)
    /\ b_focus' = FocuserGet(pos)
    /\ b_set_calls' = earlier_sets \o <<FocuserGet(pos), FocuserGet(pos)>>

\* lines 191-199
BlockingStart(end_point, starting_point) ==
    /\ FocusingEnter("coarse", starting_point, <<0, starting_point>>)
    /\ b_ret' = None

\* lines 139-145: the drop counter after a score v
FocusingDecCount(dec_count, last_value, v, threshold) ==
    IF last_value - v > threshold THEN dec_count + 1
    ELSE IF last_value - v # 0 THEN 0
    ELSE dec_count

\* lines 147-154: the loop is left, focal_distance being the next position
FocusingLeaves(dec_count, max_dec_count, focal_distance, max_focus) ==
    dec_count > max_dec_count \/ focal_distance > max_focus

\* lines 201-204: where the second focusing call starts
BlockingFineStart(max_index, coarse_step) ==
    IF max_index - coarse_step < 0 THEN 0 ELSE max_index - coarse_step

\* lines 128-155 and 200-210 for a frame of score raw
BlockingFrame(raw) ==
    IF b_stage \in {"idle", "done"}
    THEN UNCHANGED blkvars
    ELSE
    LET args == FocusingArgs(b_stage)
        v == FilterValue(b_buffer, raw)
        new_best == v > b_max_value
        max_value == IF new_best THEN v ELSE b_max_value
        max_index == IF new_best THEN b_focal_distance ELSE b_max_index
        dec_count == FocusingDecCount(b_dec_count, b_last_value, v,
                                      args.threshold)
        fd == FocuserGet(b_focus) + args.step
    IN  IF FocusingLeaves(dec_count, args.max_dec_count, fd, MAX_FOCUS_VALUE)
        THEN IF b_stage = "coarse"
             THEN LET start == BlockingFineStart(max_index, coarse_step_size)
                  IN  /\ FocusingEnter("fine", start, <<start>>)
                      /\ b_ret' = None
             ELSE /\ b_stage' = "done"
                  /\ b_focus' = BlockingLanding(b_stage, max_index)
                  /\ b_set_calls' = <<BlockingLanding(b_stage, max_index)>>
                  /\ b_ret' = Some(max_index)
                  /\ b_max_index' = max_index
                  /\ b_max_value' = max_value
                  /\ b_dec_count' = dec_count
                  /\ b_buffer' = FilterBuffer(b_buffer, raw)
                  /\ UNCHANGED <<b_last_value, b_focal_distance>>
        ELSE /\ b_focal_distance' = fd
             /\ b_focus' = fd
             /\ b_set_calls' = <<fd>>
             /\ b_max_index' = max_index
             /\ b_max_value' = max_value
             /\ b_dec_count' = dec_count
             /\ b_last_value' = v
             /\ b_buffer' = FilterBuffer(b_buffer, raw)
             /\ UNCHANGED <<b_stage, b_ret>>

\* startFocus and startFocus_hailo called with the same focuser table
StartBoth ==
    /\ h_stage = "idle"
    /\ b_stage = "idle"
    /\ \E e \in EndPoints, s \in StartingPoints :
          HailoStart(e, s) /\ BlockingStart(e, s)
    /\ UNCHANGED <<appvars, trkvars>>

\* the same frame goes to stepFocus_hailo and to focusing's getFrame
FrameToBoth ==
    /\ h_stage # "idle"
    /\ \E raw \in RefineScores : StepWith({raw}) /\ BlockingFrame(raw)
    /\ UNCHANGED <<appvars, trkvars>>

NextRefine == StartBoth \/ FrameToBoth

SpecRefine == Init /\ [][NextRefine]_vars

(***************************************************************************)
(* The blocking entry points on their own: startFocus and startFocus2,     *)
(* called when no other blocking call is running.                          *)
(***************************************************************************)
BlockingScores == {2 * k : k \in 0..MaxBlockingLevel}

\* what a blocking call leaves alone: the incremental controller
hailovars ==
    <<h_stage, h_step, h_threshold, h_max_dec_count, h_max_index, h_max_value,
      h_last_value, h_dec_count, h_focal_distance, value_buffer,
      coarse_step_size, focuser_focus, set_calls, ret, op, raw_in, val,
      coarse_result, scene>>

\* lines 224-232: the position estimated from the sweep of CoarseAdjustment,
\* int(max_time / total_time * (MAX_FOCUS_VALUE - starting_point)) +
\* starting_point, for a time ratio of 0, 1/2 or 1
SweepEstimates(end_point, starting_point) ==
    {starting_point, starting_point + (end_point - starting_point) \div 2,
     end_point}

startFocus ==
    /\ b_stage \in {"idle", "done"}
    /\ \E e \in EndPoints, s \in StartingPoints :
          /\ MAX_FOCUS_VALUE' = e
          /\ BlockingStart(e, s)
    /\ UNCHANGED <<hailovars, appvars, trkvars>>

\* lines 212-234
startFocus2 ==
    /\ b_stage \in {"idle", "done"}
    /\ \E e \in EndPoints, s \in StartingPoints :
          /\ MAX_FOCUS_VALUE' = e
          /\ \E estimate \in SweepEstimates(e, s) :
                FocusingEnter("second", estimate, <<s, e, estimate>>)
    /\ b_ret' = None
    /\ UNCHANGED <<hailovars, appvars, trkvars>>

\* a frame taken by the running blocking call
getFrame ==
    /\ b_stage \notin {"idle", "done"}
    /\ \E raw \in BlockingScores : BlockingFrame(raw)
    /\ UNCHANGED <<MAX_FOCUS_VALUE, hailovars, appvars, trkvars>>

NextBlocking == startFocus \/ startFocus2 \/ getFrame

SpecBlocking == Init /\ [][NextBlocking]_vars

(***************************************************************************)
(* The detection loop of app_callback (lines 169-252), one step per read   *)
(* of the shared target_id, with user_input_loop running beside it.  The   *)
(* loop reads nothing of the controller.                                   *)
(***************************************************************************)
TrackIds == -1..MaxTrackId

PixelXs == {640 - MaxPixelOffset, 640, 640 + MaxPixelOffset}

\* a detection: person is label == "person" and confidence > 0.5, pixel_x
\* is int(bbox.xmin() * w), off_center is abs(center_x - 0.5) > 0.2
Detections ==
    [person : BOOLEAN, track_id : TrackIds, pixel_x : PixelXs,
     off_center : BOOLEAN]

\* int(n / d) of Python for d > 0
TruncDiv(n, d) == IF n >= 0 THEN n \div d ELSE -((-n) \div d)

\* the new pan is not clamped
NewPanUnclamped(A_current, pixel_x) ==
    TruncDiv(133 * A_current + 10 * (pixel_x - 640), 133)

\* the cooldown is not looked at
CooldownIgnored(t, last) == TRUE

\* line 244: now - last_move_time >= move_cooldown
CooldownOver(t, last) == t - last >= move_cooldown

\* lines 226-236: int(A_current + (pixel_x - 640) / 13.3) clamped to [0, 180]
NewPan(A_current, pixel_x) ==
    LET new_pan == TruncDiv(133 * A_current + 10 * (pixel_x - 640), 133)
    IN  IF new_pan > 180 THEN 180 ELSE IF new_pan < 0 THEN 0 ELSE new_pan

\* a step of the detection loop calls nothing on the controller or the
\* focus motor
InDetectionLoop ==
    /\ NoControllerCall
    /\ app_set_calls' = <<>>
    /\ app_op' = "callback"
    /\ UNCHANGED <<is_focusing, target_id, blkvars>>

\* lines 172-180: the next detection of the loop
NextDetection ==
    /\ cb_pc = "loop"
    /\ \E det \in Detections :
          /\ cb_det' = det
          /\ cb_pc' = IF det.person THEN "check_mode" ELSE "loop"
    /\ pan_calls' = <<>>
    /\ UNCHANGED <<current_pan, last_move_time, now, motor_x>>
    /\ InDetectionLoop

\* line 183: if user_data.target_id != -1
CheckMode ==
    /\ cb_pc = "check_mode"
    /\ cb_pc' = IF target_id # -1 THEN "check_id" ELSE "track_mode"
    /\ pan_calls' = <<>>
    /\ UNCHANGED <<cb_det, current_pan, last_move_time, now, motor_x>>
    /\ InDetectionLoop

\* lines 184-185: if track_id != user_data.target_id: continue
CheckId ==
    /\ cb_pc = "check_id"
    /\ cb_pc' = IF cb_det.track_id # target_id THEN "loop" ELSE "track_mode"
    /\ pan_calls' = <<>>
    /\ UNCHANGED <<cb_det, current_pan, last_move_time, now, motor_x>>
    /\ InDetectionLoop

\* line 197: if user_data.target_id != -1
TrackMode ==
    /\ cb_pc = "track_mode"
    /\ cb_pc' = IF target_id # -1 THEN "move" ELSE "loop"
    /\ pan_calls' = <<>>
    /\ UNCHANGED <<cb_det, current_pan, last_move_time, now, motor_x>>
    /\ InDetectionLoop

\* lines 199-252: dead zone, new pan, cooldown and the move
Move ==
    /\ cb_pc = "move"
    /\ cb_pc' = "loop"
    /\ LET new_pan == NewPan(current_pan, cb_det.pixel_x)
           diff == new_pan - current_pan
       IN  IF /\ cb_det.off_center
              /\ (diff > 2 \/ diff < -2)
              /\ CooldownOver(now, last_move_time)
           THEN /\ pan_calls' = <<new_pan>>
                /\ motor_x' = new_pan
                /\ current_pan' = new_pan
                /\ last_move_time' = now
           ELSE /\ pan_calls' = <<>>
                /\ UNCHANGED <<current_pan, last_move_time, motor_x>>
    /\ UNCHANGED <<cb_det, now>>
    /\ InDetectionLoop

\* the monotonic clock
Tick ==
    /\ app_op # "new"
    /\ now < MaxClock
    /\ now' = now + 1
    /\ UNCHANGED <<cb_pc, cb_det, current_pan, last_move_time, motor_x,
                   pan_calls>>
    /\ UNCHANGED <<ControllerState, ret, coarse_result, coarse_step_size,
                   scene, op, raw_in, val, set_calls, appvars, blkvars>>

NextTrack ==
    \/ UserApp__init__
    \/ NextDetection
    \/ CheckMode
    \/ CheckId
    \/ TrackMode
    \/ Move
    \/ Tick
    \/ user_input_loop

SpecTrack == Init /\ [][NextTrack]_vars

(***************************************************************************)
(* Properties                                                              *)
(***************************************************************************)
InSession == h_stage \in {"coarse", "fine"}
Scored == op = "step" /\ val # None
Clamp(x, lo, hi) == IF x < lo THEN lo ELSE IF x > hi THEN hi ELSE x
\* fineStart and fineEnd of the window around the coarse best
FineLow == Clamp(coarse_result[1] - coarse_step_size, 0, MAX_FOCUS_VALUE)
FineHigh == Clamp(coarse_result[1] + coarse_step_size, 0, MAX_FOCUS_VALUE)

\* C1: once the stage is done, every stepFocus_hailo call returns the same
\* (True, p) that the finishing call returned, leaves the stage at done and
\* calls focuser.set zero times; only startFocus_hailo leaves done.
DoneIdempotent ==
    /\ [](h_stage = "done" =>
            ret = [finished |-> TRUE, best_pos |-> Some(h_max_index)])
    /\ [][(h_stage = "done" /\ op' = "step") =>
            /\ ret' = ret
            /\ h_stage' = "done"
            /\ set_calls' = <<>>
            /\ focuser_focus' = focuser_focus
            /\ h_max_index' = h_max_index]_vars

\* a step call has been made while the stage was already done
DoneStepped ==
    h_stage = "done" /\ op = "step" /\ val = None /\ ret.finished

\* C2: once a session is started and frames keep arriving, the stage
\* eventually becomes done, whatever the scores are.
SessionTerminates == InSession ~> (h_stage = "done")

\* a session ended by the fine stage running past MAX_FOCUS_VALUE
FinishedPastEnd ==
    h_stage = "done" /\ h_focal_distance > MAX_FOCUS_VALUE

\* C3: every position commanded to the actuator and the best position
\* lie in [0, MAX_FOCUS_VALUE] throughout a session.
PositionInRange ==
    h_stage # "idle" =>
        /\ \A i \in 1..Len(set_calls) : set_calls[i] \in 0..MAX_FOCUS_VALUE
        /\ h_max_index \in 0..MAX_FOCUS_VALUE

\* C4: the tracked scan position never passes MAX_FOCUS_VALUE, and a stage
\* completes only on the call that scores the position MAX_FOCUS_VALUE.
ScanEndsAtEnd ==
    /\ [](InSession => h_focal_distance <= MAX_FOCUS_VALUE)
    /\ [][(InSession /\ op' = "step" /\ h_stage' # h_stage) =>
            h_focal_distance = MAX_FOCUS_VALUE]_vars

\* C5: on a step call that stays within a stage (or finishes the fine
\* stage) the best score never decreases, and the best (position, score)
\* changes only to (tracked position, filtered score) on a filtered score
\* strictly greater than the best score.
BestNeverRegresses ==
    [][(InSession /\ op' = "step" /\
        ~(h_stage = "coarse" /\ h_stage' = "fine")) =>
            /\ h_max_value' >= h_max_value
            /\ (<<h_max_index', h_max_value'>> # <<h_max_index, h_max_value>>
                  => /\ val'[1] > h_max_value
                     /\ h_max_value' = val'[1]
                     /\ h_max_index' = h_focal_distance)
            /\ (val'[1] > h_max_value => h_max_value' = val'[1])]_vars

\* a score below the best arrived after a drop and a rise, best untouched
RiseFallRise ==
    /\ h_stage = "fine" /\ Scored
    /\ Len(value_buffer) = 2
    /\ val[1] < h_max_value
    /\ val[1] > 0
    /\ h_dec_count = 0
    /\ h_max_index < h_focal_distance - 2 * h_step

\* C6: the filter holds at most 3 scores and returns the median of the
\* last 3 raw scores once 3 are available, else the raw score.
FilterIsMedian ==
    /\ [](Len(value_buffer) <= max_len)
    /\ [][(InSession /\ op' = "step") =>
            val'[1] = IF Len(value_buffer) = max_len - 1
                      THEN Median3(value_buffer[1], value_buffer[2], raw_in'[1])
                      ELSE raw_in'[1]]_vars

\* C7: when the filter's history and the new raw score are all the same
\* value, the filter returns that value.
FilterConstantInput ==
    [][(InSession /\ op' = "step" /\
        \A i \in 1..Len(value_buffer) : value_buffer[i] = raw_in'[1]) =>
            val'[1] = raw_in'[1]]_vars

\* the first three scores of a fine stage were the same positive value and
\* the third call returned it
ThreeEqualScores ==
    /\ h_stage = "fine" /\ Scored /\ coarse_result # None
    /\ h_max_index = FineLow
    /\ h_focal_distance = FineLow + 3 * FineStep
    /\ h_max_value > 0
    /\ value_buffer = <<h_max_value, h_max_value>>
    /\ val = Some(h_max_value)

ConvergesNearPeak ==
    (scene.kind = "peak" /\ h_stage \in {"fine", "done"}) =>
        /\ coarse_result = Some(640)
        /\ (h_stage = "fine" => h_focal_distance >= 560)
        /\ (ret.finished =>
              /\ ret.best_pos[1] - scene.at <= 10
              /\ scene.at - ret.best_pos[1] <= 10)

\* the convergence scenario has finished
ConvergenceFinished ==
    scene.kind = "peak" /\ h_stage = "done" /\ ret.finished

\* C10: the step call that follows an actuator set() is not scored:
\* it returns (False, None) and leaves the best candidate unchanged.
SettleAfterSet ==
    [][(InSession /\ set_calls # <<>> /\ op' = "step") =>
            /\ val' = None
            /\ ret' = [finished |-> FALSE, best_pos |-> None]
            /\ h_max_index' = h_max_index
            /\ h_max_value' = h_max_value]_vars

StageRank(stage) ==
    CASE stage = "idle" -> 0
      [] stage = "coarse" -> 1
      [] stage = "fine" -> 2
      [] stage = "done" -> 3

\* C11: one stepFocus_hailo call scores at most the one frame passed to
\* it (the score history gains at most that one score), moves the tracked
\* position by at most one stage step and the stage by at most one stage.
NonBlockingStep ==
    [][op' = "step" =>
          /\ StageRank(h_stage') - StageRank(h_stage) \in {0, 1}
          /\ \/ value_buffer' = value_buffer
             \/ value_buffer' = <<>>
             \/ value_buffer' = Append(value_buffer, raw_in'[1])
             \/ value_buffer' = Append(Tail(value_buffer), raw_in'[1])
          /\ (h_stage' = h_stage =>
                h_focal_distance' \in
                    {h_focal_distance, h_focal_distance + h_step})]_vars

\* the call that scored a frame, ended the coarse stage and started fine
CoarseJustEnded ==
    /\ h_stage = "fine" /\ Scored
    /\ h_last_value = -1
    /\ coarse_result # None

\* C12: in idle, stepFocus_hailo returns (False, None), changes no
\* controller state and commands nothing; idle is left only by
\* startFocus_hailo, into coarse.
IdleIsNoOp ==
    /\ [][(h_stage = "idle" /\ op' = "step") =>
            /\ ret' = [finished |-> FALSE, best_pos |-> None]
            /\ set_calls' = <<>>
            /\ UNCHANGED ControllerState]_vars
    /\ [][(h_stage = "idle" /\ h_stage' # "idle") =>
            (op' = "start" /\ h_stage' = "coarse")]_vars

\* a step call has been made on the idle controller
IdleStepped == h_stage = "idle" /\ op = "step"

\* C13: stepFocus_hailo keeps the stage or moves it coarse -> fine or
\* fine -> done, the former only when the coarse stage's end condition
\* holds; coarse is entered only by startFocus_hailo.
StageOrdering ==
    /\ [][op' = "step" =>
            \/ h_stage' = h_stage
            \/ /\ h_stage = "coarse" /\ h_stage' = "fine"
               /\ coarse_result' # None
               /\ \/ h_focal_distance > MAX_FOCUS_VALUE
                  \/ NextDecCount(h_dec_count, h_last_value, val'[1],
                                  h_threshold) > h_max_dec_count
            \/ h_stage = "fine" /\ h_stage' = "done"]_vars
    /\ [][(h_stage' = "coarse" /\ h_stage # "coarse") => op' = "start"]_vars
    /\ [][op' = "start" => h_stage' = "coarse"]_vars

\* a session has gone through coarse and fine to done
WholeSessionRun ==
    h_stage = "done" /\ coarse_result # None /\ Scored

\* C16: startFocus_hailo called in coarse or fine is rejected: it changes
\* no controller state and commands nothing.
StartRejectedInSession ==
    [][(InSession /\ op' = "start") =>
          /\ set_calls' = <<>>
          /\ UNCHANGED ControllerState]_vars

TrackedIsCommanded ==
    InSession => h_focal_distance = focuser_focus

\* C14: a missing or invalid frame delivered during a session is skipped
\* without raising: no controller state changes and nothing is commanded.
InvalidFrameAbsorbed ==
    [][(InSession /\ app_op' \in {"no_frame", "invalid_frame"}) =>
          /\ op' # "raised"
          /\ set_calls' = <<>>
          /\ app_set_calls' = <<>>
          /\ UNCHANGED ControllerState]_vars

\* C15: after a failed focuser.set the stage is the terminal error stage
\* and no later step call scores a frame.
ActuatorFaultIsFatal ==
    /\ [](op = "set_failed" => h_stage = "error")
    /\ [][(op = "set_failed" /\ op' \in {"step", "set_failed"}) =>
            val' = None]_vars

\* C17: startFocus_hailo with a starting point above the end point does not
\* start a scan: the stage does not become coarse and nothing is commanded.
InvertedWindowRejected ==
    [][(op' = "start" /\ h_focal_distance' > MAX_FOCUS_VALUE') =>
          /\ h_stage' # "coarse"
          /\ set_calls' = <<>>]_vars

\* C19: the frame callback commands the focus motor only in the call in
\* which the controller reported finished, after clearing is_focusing, and
\* with the reported position; the input thread commands nothing.
SingleOwnerActuator ==
    /\ (app_op # "init" /\ app_set_calls # <<>>) =>
          /\ ~is_focusing
          /\ h_stage = "done"
          /\ op = "step"
          /\ ret.finished
          /\ app_set_calls = <<Some(h_max_index)>>
    /\ app_op = "input" => (app_set_calls = <<>> /\ set_calls = <<>>)
    /\ (is_focusing /\ app_op # "init") => InSession

\* the callback has commanded the best position the controller reported
CallbackLanded ==
    /\ app_op = "callback"
    /\ ~is_focusing
    /\ app_set_calls = <<Some(h_max_index)>>

\* C22: a session that ends with a best score of 0 is done with a position
\* and its result carries a low-confidence flag.
LowConfidenceFlagged ==
    (h_stage = "done" /\ op = "step" /\ h_max_value = 0) =>
        /\ ret.finished
        /\ ret.best_pos # None
        /\ "low_confidence" \in DOMAIN ret

\* C23: when stepFocus_hailo first returns (True, p), p is the best position
\* of the fine stage, the one focuser.set of that call commanded p and the
\* lens is at p; the callback then commands the same p.
LandsOnResult ==
    (op = "step" /\ val # None /\ ret.finished) =>
        /\ ret.best_pos = Some(h_max_index)
        /\ h_max_index >= FineLow
        /\ set_calls = <<h_max_index>>
        /\ focuser_focus = h_max_index
        /\ app_op = "callback" => app_set_calls = <<ret.best_pos>>

\* the fine stage found a best above its start and the callback landed on it
LandedAboveFineStart ==
    /\ app_op = "callback" /\ op = "step" /\ val # None /\ ret.finished
    /\ h_max_index > FineLow
    /\ coarse_result # Some(h_max_index)

\* C24: whenever a step call replaces the best candidate, the new best
\* position is the position the lens was last commanded to.
BestWasCommanded ==
    [][(InSession /\ op' = "step" /\ h_stage' \in {h_stage, "done"}
          /\ h_max_index' # h_max_index) =>
          h_max_index' = focuser_focus]_vars

\* the drop counter the stage end rule prescribes after this call's score
DropsAfter ==
    IF h_last_value < 0 THEN h_dec_count
    ELSE IF h_last_value - val'[1] > 1 THEN h_dec_count + 1
    ELSE IF h_last_value # val'[1] THEN 0
    ELSE h_dec_count

AtMostOneSetPerStep ==
    [][op' = "step" => Len(set_calls') <= 1]_vars

\* the call that ended coarse commanded the fine start, once
FineStartCommandedOnce ==
    /\ op = "step" /\ h_stage = "fine" /\ h_last_value = -1
    /\ set_calls = <<h_focal_distance>>

\* C27: stepFocus_hailo returns a position exactly when it returns
\* finished=True, and finished=True exactly when the stage is done on
\* return; the call that ends coarse returns (False, None).
ResultShape ==
    op = "step" =>
        /\ (ret.best_pos # None) <=> ret.finished
        /\ ret.finished <=> (h_stage = "done")
        /\ (h_stage = "fine" /\ h_last_value = -1) =>
              ret = [finished |-> FALSE, best_pos |-> None]

\* the finishing call returned a position
FinishedWithPosition ==
    op = "step" /\ val # None /\ ret.finished /\ ret.best_pos # None

\* C28: a stage that has just started has the lens commanded to its start,
\* the best candidate (start, 0), an empty score history, no last value and
\* a drop count of 0; the history never holds more than the scores of the
\* current stage and the first two filtered scores of a stage are the raw
\* scores.
StagesIsolated ==
    /\ [](InSession /\ h_last_value = -1 =>
            /\ value_buffer = <<>>
            /\ h_max_index = h_focal_distance
            /\ h_max_value = 0
            /\ h_dec_count = 0
            /\ set_calls = <<h_focal_distance>>
            /\ focuser_focus = h_focal_distance)
    /\ [][(InSession /\ op' = "step" /\ h_last_value = -1) =>
            (val' = raw_in' /\ (h_stage' = h_stage => value_buffer' = <<raw_in'[1]>>))]_vars
    /\ [][(InSession /\ op' = "step" /\ Len(value_buffer) = 1) =>
            val' = raw_in']_vars

\* the second frame of the fine stage scored as its raw score
FineSecondScoreRaw ==
    /\ h_stage = "fine" /\ Scored
    /\ Len(value_buffer) = 2
    /\ val = raw_in
    /\ coarse_result # None

\* C29: is_focusing is true after UserApp.__init__, becomes false exactly in
\* the callback in which stepFocus_hailo returns finished=True and stays
\* false; once it is false no callback calls stepFocus_hailo or commands
\* the focus motor.
CallbackStopsAfterDone ==
    /\ [](app_op = "init" => is_focusing)
    /\ [][(is_focusing /\ app_op' = "callback") =>
            (~is_focusing' <=> (op' = "step" /\ ret'.finished))]_vars
    /\ [][(is_focusing /\ ~is_focusing') => app_op' = "callback"]_vars
    /\ [][(~is_focusing /\ app_op # "new") =>
            /\ ~is_focusing'
            /\ op' # "step"
            /\ set_calls' = <<>>
            /\ app_set_calls' = <<>>]_vars

\* a callback ran after autofocus had completed
CallbackAfterDone ==
    app_op = "callback" /\ ~is_focusing /\ op = "none" /\ h_stage = "done"

\* C21: given the same focuser table and the same frames, the incremental
\* session and the blocking startFocus are in the same stage after every
\* frame, take their next sample at the same position, and report the
\* same best position.
IncrementalEqualsBlocking ==
    /\ h_stage = b_stage
    /\ InSession => h_focal_distance = b_focal_distance
    /\ h_stage = "done" => ret.best_pos = b_ret

\* C30: a pan move is commanded only for a detection whose track id is the
\* target id in force when the move is commanded, and never while
\* target_id is -1.
PanFollowsTarget ==
    [][(cb_pc = "move" /\ cb_pc' = "loop" /\ pan_calls' # <<>>) =>
          (target_id # -1 /\ cb_det.track_id = target_id)]_vars

PanMoveCooldown ==
    /\ [][(cb_pc = "move" /\ cb_pc' = "loop" /\ pan_calls' # <<>>) =>
            /\ now - last_move_time >= move_cooldown
            /\ last_move_time' = now]_vars
    /\ [][(cb_pc = "move" /\ cb_pc' = "loop"
              /\ now - last_move_time < move_cooldown) =>
            /\ pan_calls' = <<>>
            /\ UNCHANGED <<current_pan, last_move_time, motor_x>>]_vars
    /\ [][cb_pc = "move" => (now' = now \/ cb_pc' = "move")]_vars
    /\ [][last_move_time' # last_move_time =>
            (app_op' = "init" \/ pan_calls' # <<>>)]_vars

\* a second pan move, commanded after the cooldown of the first
SecondMoveAfterCooldown ==
    /\ cb_pc = "loop"
    /\ pan_calls # <<>>
    /\ last_move_time = now
    /\ now >= 2 * move_cooldown
    /\ (current_pan > center_pan + 60 \/ current_pan < center_pan - 60)

\* C33: when startFocus or startFocus2 has returned max_index, the focus
\* position last commanded is max_index and lies in [0, MAX_FOCUS_VALUE].
BlockingLandsOnResult ==
    (b_stage = "done" /\ b_ret # None) =>
        /\ b_focus = b_ret[1]
        /\ b_focus \in 0..MAX_FOCUS_VALUE

====
